---- MODULE Spec2Model ----
(***************************************************************************)
(* A model of the pg_hello PostgreSQL extension (src/pg-hello/src/pg_hello.c*)
(* and sql/pg_hello--1.0.sql) as seen from one database session: the GUC   *)
(* cell hello_repeat, the three SQL-callable functions pg_hello, now_ms    *)
(* and spi_version, and the parts of the host they talk to (the GUC layer, *)
(* the function manager, the clock, and SPI).                              *)
(***************************************************************************)
EXTENDS Integers, Sequences, FiniteSets, TLC

VARIABLES
    hello_repeat,        \* static int hello_repeat (pg_hello.c:14)
    repeat_source,       \* where the GUC's value comes from: "default" | "session"
    last,                \* the last statement the session ran, and its outcome
    kept,                \* a result of an earlier call that the host kept
    clock,               \* the host's wall clock, microseconds since 2000-01-01
    xactStartTimestamp,  \* the start timestamp of the current transaction
    pc,                  \* spi_version: the position of the running invocation
    SPI,                 \* the host's SPI state: open sessions, SPI_processed, SPI_tuptable
    ret,                 \* spi_version: int ret
    isnull,              \* spi_version: bool isnull
    result,              \* spi_version: text *result, the object it points to
    mem,                 \* the memory owned by the SPI session (procCxt and children)
    trace,               \* the SPI calls and errors of the current spi_version invocation
    peer,                \* a second session, served by another backend process
    wide                 \* now_ms over the whole range of TimestampTz: its locals

vars == <<hello_repeat, repeat_source, last, kept, clock, xactStartTimestamp,
          pc, SPI, ret, isnull, result, mem, trace, peer, wide>>

greetVars == <<hello_repeat, repeat_source>>
clockVars == <<clock, xactStartTimestamp>>
spiVars   == <<pc, SPI, ret, isnull, result, mem, trace>>

(***************************************************************************)
(* Bounds of the model.                                                    *)
(***************************************************************************)
\* names are all texts over Chars of at most this length
MaxNameLen == 1
\* SET is tried with every integer from min - SetMargin to max + SetMargin
SetMargin == 1
\* the wall clock advances in steps of TickMicros, at most MaxClockTicks times
TickMicros == 500
MaxClockTicks == 4
\* where the whole range of the clock is explored, it is set to instants up to
\* MaxMillis milliseconds before and after the epoch
MaxMillis == 2
\* where the whole range of 64-bit timestamps is explored, now_ms is applied to
\* the timestamps at most WideSpread away from a set of marks
WideSpread == 2

(***************************************************************************)
(* Text values.  A text is a sequence of characters without NUL; a datum   *)
(* is a text or SQL NULL; a C string is a sequence ending at its first NUL.*)
(***************************************************************************)
NUL == "NUL"
Chars == {"a", " "}

RECURSIVE TextsUpTo(_)
TextsUpTo(k) ==
    IF k = 0 THEN {<<>>}
    ELSE LET shorter == TextsUpTo(k - 1)
         IN  shorter \cup {Append(s, c) : s \in shorter, c \in Chars}

Names == TextsUpTo(MaxNameLen)

NullDatum == [isnull |-> TRUE, val |-> <<>>]
TextDatum(t) == [isnull |-> FALSE, val |-> t]

\* strlen(): the number of characters before the first NUL
RECURSIVE strlen_from(_, _)
strlen_from(s, i) ==
    IF i > Len(s) \/ s[i] = NUL THEN i - 1 ELSE strlen_from(s, i + 1)

strlen(s) == strlen_from(s, 1)

\* text_to_cstring(): a palloc'd copy of the text's bytes, NUL-terminated
text_to_cstring(t) == Append(t, NUL)

\* cstring_to_text(): the bytes of the C string up to its terminator
cstring_to_text(s) == SubSeq(s, 1, strlen(s))

(***************************************************************************)
(* StringInfo (lib/stringinfo.h as used by pg_hello): data is always       *)
(* NUL-terminated and len is the length without the terminator.            *)
(***************************************************************************)
initStringInfo == [data |-> <<NUL>>, len |-> 0]

appendStringInfoString(b, s) ==
    [data |-> SubSeq(b.data, 1, b.len) \o cstring_to_text(s) \o <<NUL>>,
     len  |-> b.len + strlen(s)]

\* an expansion that yields nothing for an empty argument
HelloFormatSkipEmpty(cname) ==
    IF strlen(cname) = 0 THEN <<NUL>>
    ELSE <<"H", "e", "l", "l", "o", ",", " ">> \o cstring_to_text(cname) \o <<"!", NUL>>

\* the expansion of the format "Hello, %s!" with one C string argument
HelloFormat(cname) ==
    <<"H", "e", "l", "l", "o", ",", " ">> \o cstring_to_text(cname) \o <<"!", NUL>>

appendStringInfo_Hello(b, cname) == appendStringInfoString(b, HelloFormat(cname))

(***************************************************************************)
(* Integers of 64 bits.  A value is a sign and a magnitude; the magnitude  *)
(* is four digits in base 10^6, the most significant first, so that every  *)
(* step of the arithmetic stays within the integers of the checker.        *)
(***************************************************************************)
WideBase == 1000 * 1000

MagZero == <<0, 0, 0, 0>>

\* a < b, for magnitudes
MagLess(a, b) ==
    \E i \in 1 .. Len(a) : a[i] < b[i] /\ \A j \in 1 .. (i - 1) : a[j] = b[j]

\* digits 1..i of a + b + c, where c is the carry into digit i
RECURSIVE MagAddFrom(_, _, _, _)
MagAddFrom(a, b, i, c) ==
    IF i = 0 THEN <<>>
    ELSE LET t == a[i] + b[i] + c
         IN  Append(MagAddFrom(a, b, i - 1, t \div WideBase), t % WideBase)

MagAdd(a, b) == MagAddFrom(a, b, Len(a), 0)

\* digits 1..i of a - b - c for a >= b, where c is the borrow from digit i
RECURSIVE MagSubFrom(_, _, _, _)
MagSubFrom(a, b, i, c) ==
    IF i = 0 THEN <<>>
    ELSE LET t == a[i] - b[i] - c
         IN  Append(MagSubFrom(a, b, i - 1, IF t < 0 THEN 1 ELSE 0),
                    IF t < 0 THEN t + WideBase ELSE t)

MagSub(a, b) == MagSubFrom(a, b, Len(a), 0)

\* digits i.. of (r * base^k + a) divided by d, for 0 < d <= 2000 and r < d:
\* long division, digit by digit
RECURSIVE MagDivFrom(_, _, _, _)
MagDivFrom(a, d, i, r) ==
    IF i > Len(a) THEN <<>>
    ELSE LET t == r * WideBase + a[i]
         IN  <<t \div d>> \o MagDivFrom(a, d, i + 1, t % d)

MagDiv(a, d) == MagDivFrom(a, d, 1, 0)

\* the value with this sign and magnitude; zero has no sign
Wide(neg, mag) == [neg |-> neg /\ mag # MagZero, mag |-> mag]

WideNeg(x) == Wide(~x.neg, x.mag)

WideAdd(x, y) ==
    IF x.neg = y.neg THEN Wide(x.neg, MagAdd(x.mag, y.mag))
    ELSE IF MagLess(x.mag, y.mag) THEN Wide(y.neg, MagSub(y.mag, x.mag))
    ELSE Wide(x.neg, MagSub(x.mag, y.mag))

WideSub(x, y) == WideAdd(x, WideNeg(y))

WideLess(x, y) ==
    IF x.neg # y.neg THEN x.neg
    ELSE IF x.neg THEN MagLess(y.mag, x.mag)
    ELSE MagLess(x.mag, y.mag)

\* digits 1..i of a * d + c for 0 <= d <= 2000, where c is the carry into digit i
RECURSIVE MagMulFrom(_, _, _, _)
MagMulFrom(a, d, i, c) ==
    IF i = 0 THEN <<>>
    ELSE LET t == a[i] * d + c
         IN  Append(MagMulFrom(a, d, i - 1, t \div WideBase), t % WideBase)

WideMul(x, d) == Wide(x.neg, MagMulFrom(x.mag, d, Len(x.mag), 0))

\* an integer of the checker as a 64-bit value, and back
ToWide(i) ==
    LET m == IF i < 0 THEN -i ELSE i
    IN  Wide(i < 0, <<0, 0, m \div WideBase, m % WideBase>>)

FromWide(x) ==
    LET m == x.mag[3] * WideBase + x.mag[4]
    IN  IF x.neg THEN -m ELSE m

RECURSIVE WidePow2(_)
WidePow2(k) ==
    IF k <= 10 THEN ToWide(2 ^ k)
    ELSE WideMul(WidePow2(k - 10), 2 ^ 10)

\* the range of int64 (and of long long)
Int64Min == WideNeg(WidePow2(63))

Int64Max == Wide(FALSE, MagSub(Int64Min.mag, ToWide(1).mag))

\* 2^64, the number of values of a 64-bit type
Int64Count == Wide(FALSE, MagAdd(Int64Min.mag, Int64Min.mag))

InInt64(x) == ~WideLess(x, Int64Min) /\ ~WideLess(Int64Max, x)

\* a conversion to a signed 64-bit type: the value if it is in range, else the
\* value it wraps to in two's complement
\* x less the multiples of 2^64 * 2^j, ..., 2^64 * 2^0 that its magnitude holds
RECURSIVE WrapFrom(_, _)
WrapFrom(x, j) ==
    IF j < 0 THEN x
    ELSE WrapFrom(IF MagLess(x.mag, WideMul(Int64Count, 2 ^ j).mag) THEN x
                  ELSE IF x.neg THEN WideAdd(x, WideMul(Int64Count, 2 ^ j))
                  ELSE WideSub(x, WideMul(Int64Count, 2 ^ j)),
                  j - 1)

Wrapped(y) ==
    IF WideLess(Int64Max, y) THEN WideSub(y, Int64Count)
    ELSE IF WideLess(y, Int64Min) THEN WideAdd(y, Int64Count)
    ELSE y

CastInt64(x) == IF InInt64(x) THEN x ELSE Wrapped(WrapFrom(x, 10))

\* a product where the quotient was meant
WideTimes(x, d) == WideMul(x, d)

\* C's division of 64-bit integers by a positive divisor of at most 2000: the
\* magnitude is divided and the sign kept, so the quotient truncates toward zero
WideCDiv(x, d) == Wide(x.neg, MagDiv(x.mag, d))

(***************************************************************************)
(* The record of a statement: which operation ran, its argument (for       *)
(* spi_version the row its query delivered), whether the C body ran and    *)
(* with which repeat count, what came back, and the SPI calls made; for    *)
(* now_ms the timestamp it read, and whether the clock has been set back   *)
(* since the statement ran.                                                *)
(***************************************************************************)
Stmt(op, arg, n, body, r, num, status) ==
    [op |-> op, arg |-> arg, n |-> n, body |-> body, ret |-> r, num |-> num,
     status |-> status, trace |-> <<>>, cur |-> TRUE, micros |-> 0, back |-> FALSE]

NoStmt ==
    [op |-> "none", arg |-> NullDatum, n |-> 0, body |-> FALSE, ret |-> NullDatum,
     num |-> 0, status |-> "none", trace |-> <<>>, cur |-> FALSE, micros |-> 0,
     back |-> FALSE]

(***************************************************************************)
(* The GUC pg_hello.repeat as _PG_init registers it, and the host's SET    *)
(* and RESET, which validate against the registered bounds.                *)
(***************************************************************************)
hello_repeat_boot_two == 1 + 1

hello_repeat_boot == 1

hello_repeat_min == 1

hello_repeat_max_eleven == 10 + 1

hello_repeat_max == 10

SetValues == (hello_repeat_min - SetMargin) .. (hello_repeat_max + SetMargin)

GucAcceptsAll(v) == TRUE

\* the range check the GUC layer makes for an integer variable
GucAccepts(v) == v >= hello_repeat_min /\ v <= hello_repeat_max

\* a cell in memory that all backends share
CellShared(w, v) == v

\* static int hello_repeat is a variable of one backend process: an assignment
\* of v in one backend leaves the cell of another backend, which holds w, alone
CellOfOtherBackend(w, v) == w

\* a setting that is brought into the range instead of being refused
RejectedSetClamps(w, v) == IF v < hello_repeat_min THEN hello_repeat_min ELSE hello_repeat_max

\* a value outside the registered bounds is refused with an error: the
\* assignment to the cell, which holds w, does not happen
RejectedSetLeaves(w, v) == w

\* SET pg_hello.repeat = v
SetRepeat ==
    /\ pc = "idle"
    /\ \E v \in SetValues :
          IF GucAccepts(v)
          THEN /\ hello_repeat' = v
               /\ repeat_source' = "session"
               /\ last' = Stmt("SET", NullDatum, v, FALSE, NullDatum, 0, "ok")
               /\ peer' = [peer EXCEPT !.hello_repeat = CellOfOtherBackend(@, v)]
          ELSE /\ hello_repeat' = RejectedSetLeaves(hello_repeat, v)
               /\ UNCHANGED <<repeat_source, peer>>
               /\ last' = Stmt("SET", NullDatum, v, FALSE, NullDatum, 0, "rejected")
    /\ UNCHANGED <<kept, clockVars, spiVars, wide>>

\* RESET pg_hello.repeat
ResetRepeat ==
    /\ pc = "idle"
    /\ hello_repeat' = hello_repeat_boot
    /\ repeat_source' = "default"
    /\ last' = Stmt("RESET", NullDatum, hello_repeat_boot, FALSE, NullDatum, 0, "ok")
    /\ peer' = [peer EXCEPT !.hello_repeat = CellOfOtherBackend(@, hello_repeat_boot)]
    /\ UNCHANGED <<kept, clockVars, spiVars, wide>>

(***************************************************************************)
(* The same statements in a second session.  Its backend has loaded the    *)
(* library too and has a hello_repeat of its own; of its statements the    *)
(* model keeps the last one, and for a call of pg_hello the count it read. *)
(***************************************************************************)
PeerStmt(op, n, status) == [peer EXCEPT !.op = op, !.n = n, !.status = status]

\* SET pg_hello.repeat = v in the second session
PeerSetRepeat ==
    /\ \E v \in SetValues :
          IF GucAccepts(v)
          THEN /\ peer' = [PeerStmt("SET", v, "ok") EXCEPT !.hello_repeat = v,
                                                          !.repeat_source = "session"]
               /\ hello_repeat' = CellOfOtherBackend(hello_repeat, v)
          ELSE /\ peer' = [PeerStmt("SET", v, "rejected")
                             EXCEPT !.hello_repeat = RejectedSetLeaves(@, v)]
               /\ UNCHANGED hello_repeat
    /\ UNCHANGED <<repeat_source, last, kept, clockVars, spiVars, wide>>

\* RESET pg_hello.repeat in the second session
PeerResetRepeat ==
    /\ peer' = [PeerStmt("RESET", hello_repeat_boot, "ok")
                   EXCEPT !.hello_repeat = hello_repeat_boot,
                          !.repeat_source = "default"]
    /\ hello_repeat' = CellOfOtherBackend(hello_repeat, hello_repeat_boot)
    /\ UNCHANGED <<repeat_source, last, kept, clockVars, spiVars, wide>>

\* SELECT pg_hello(name) in the second session: the loop reads that backend's cell
PeerPgHello ==
    /\ peer' = PeerStmt("pg_hello", peer.hello_repeat, "ok")
    /\ UNCHANGED <<greetVars, last, kept, clockVars, spiVars, wide>>

(***************************************************************************)
(* pg_hello(text), declared LANGUAGE C STRICT IMMUTABLE.                   *)
(***************************************************************************)
pg_hello_strict_off == FALSE

pg_hello_strict == TRUE

pg_hello_volatility == "IMMUTABLE"

now_ms_volatility == "STABLE"

NeedsSeparatorAlways(i) == i >= 0

\* if (i > 0) appendStringInfoString(&buf, " ");
NeedsSeparator(i) == i > 0

\* a repeat count taken once, at the first call whose result the host kept
RepeatCountCached == IF kept.op = "pg_hello" /\ kept.body THEN kept.n ELSE hello_repeat

\* the read of the global hello_repeat in the loop condition
RepeatCount == hello_repeat

\* a loop that counts the global itself down
RepeatCountedDown == hello_repeat - RepeatCount

\* the loop only compares hello_repeat with i: the cell holds the same value
\* after the loop as before it
RepeatAfterLoop == hello_repeat

\* for (int i = 0; i < hello_repeat; i++) { ... }
RECURSIVE pg_hello_loop(_, _, _)
pg_hello_loop(i, b, cname) ==
    IF i < RepeatCount
    THEN LET b1 == IF NeedsSeparator(i)
                   THEN appendStringInfoString(b, <<" ", NUL>>)
                   ELSE b
         IN  pg_hello_loop(i + 1, appendStringInfo_Hello(b1, cname), cname)
    ELSE b

\* the body of pg_hello for a non-null argument: the text it returns
pg_hello_body(name) ==
    LET cname == text_to_cstring(name)
        buf   == pg_hello_loop(0, initStringInfo, cname)
    IN  cstring_to_text(buf.data)

\* SELECT pg_hello(arg): the function manager's strictness check, then the body
pg_hello ==
    /\ pc = "idle"
    /\ \E arg \in {NullDatum} \cup {TextDatum(t) : t \in Names} :
          /\ IF arg.isnull
             THEN IF pg_hello_strict
                  THEN last' = Stmt("pg_hello", arg, 0, FALSE, NullDatum, 0, "ok")
                  ELSE \* PG_GETARG_TEXT_PP dereferences a null pointer
                       last' = Stmt("pg_hello", arg, hello_repeat, TRUE, NullDatum, 0,
                                    "crash")
             ELSE last' = Stmt("pg_hello", arg, hello_repeat, TRUE,
                               TextDatum(pg_hello_body(arg.val)), 0, "ok")
          /\ hello_repeat' = IF last'.body THEN RepeatAfterLoop ELSE hello_repeat
    /\ UNCHANGED <<repeat_source, kept, clockVars, spiVars, peer, wide>>

(***************************************************************************)
(* The host may keep the result of a call of a function that is not        *)
(* declared VOLATILE; the kept result is set against the calls that follow.*)
(***************************************************************************)
Keep ==
    /\ pc = "idle"
    /\ \/ last.op = "pg_hello" /\ pg_hello_volatility # "VOLATILE"
       \/ last.op = "now_ms" /\ now_ms_volatility # "VOLATILE"
    /\ last.status = "ok"
    /\ kept # last
    /\ kept' = last
    /\ UNCHANGED <<greetVars, last, clockVars, spiVars, peer, wide>>

\* The host answers a call of pg_hello with the result it kept for the same
\* argument and does not run the body again: what the declaration IMMUTABLE
\* allows it to do, as when the call was folded to a constant in a plan that
\* is executed again.
pg_hello_folded ==
    /\ pc = "idle"
    /\ pg_hello_volatility = "IMMUTABLE"
    /\ kept.op = "pg_hello"
    /\ last' = [kept EXCEPT !.body = FALSE, !.cur = TRUE]
    /\ UNCHANGED <<greetVars, kept, clockVars, spiVars, peer, wide>>

(***************************************************************************)
(* now_ms(), declared LANGUAGE C STABLE, and the host's clock.             *)
(***************************************************************************)
\* division that rounds to the nearest integer
CDivRound(a, b) == (2 * a + b) \div (2 * b)

\* division that rounds up
CDivCeil(a, b) == -((-a) \div b)

\* division that rounds down
CDivFloor(a, b) == a \div b

\* the remainder where the quotient was meant
CRem(a, b) == a % b

\* C's integer division truncates toward zero
CDiv(a, b) == IF a >= 0 THEN a \div b ELSE -((-a) \div b)

\* GetCurrentTimestamp(): the wall clock at the moment of the call
GetCurrentTimestamp == clock

now_ms ==
    /\ pc = "idle"
    /\ LET now    == GetCurrentTimestamp
           micros == now
           millis == CDiv(micros, 1000)
       IN  last' = [Stmt("now_ms", NullDatum, 0, TRUE, NullDatum, millis, "ok")
                       EXCEPT !.micros = now]
    /\ UNCHANGED <<greetVars, kept, clockVars, spiVars, peer, wide>>

\* lines 67-69 for a timestamp anywhere in the range of TimestampTz
now_ms_convert ==
    /\ ~wide.done
    /\ LET micros == CastInt64(wide.now)
           millis == WideCDiv(micros, 1000)
       IN  wide' = [wide EXCEPT !.micros = micros, !.millis = millis,
                                !.ret = CastInt64(millis), !.done = TRUE]
    /\ UNCHANGED <<greetVars, last, kept, clockVars, spiVars, peer>>

\* time passes
Tick ==
    /\ clock < MaxClockTicks * TickMicros
    /\ clock' = clock + TickMicros
    /\ UNCHANGED <<greetVars, last, kept, xactStartTimestamp, spiVars, peer, wide>>

\* the instants the clock can be set to: around every whole millisecond from
\* MaxMillis before the epoch to MaxMillis after it
SubMillis == {-1, 0, 1}

ClockValues == {m * 1000 + d : m \in (-MaxMillis) .. MaxMillis, d \in SubMillis}

\* the clock moves to another instant: time passes, or the host's clock is
\* adjusted, forwards or backwards
ClockMoves ==
    /\ \E t \in ClockValues \ {clock} :
          /\ clock' = t
          /\ last' = [last EXCEPT !.back = @ \/ t < clock]
          /\ kept' = [kept EXCEPT !.back = @ \/ t < clock]
    /\ UNCHANGED <<greetVars, xactStartTimestamp, spiVars, peer, wide>>

\* the session's current transaction ends and the next one starts
NewTransaction ==
    /\ pc = "idle"
    /\ xactStartTimestamp' = clock
    /\ last' = [last EXCEPT !.cur = FALSE]
    /\ kept' = [kept EXCEPT !.cur = FALSE]
    /\ \/ last.cur
       \/ kept.cur
       \/ xactStartTimestamp # clock
    /\ UNCHANGED <<greetVars, clock, spiVars, peer, wide>>

(***************************************************************************)
(* spi_version(), declared LANGUAGE C STABLE, step by step, and SPI.       *)
(***************************************************************************)
\* const char *query = "SELECT version()"; SPI_execute(query, true, 1)
tcount == 1

\* the version() text of the host
VersionText == <<"P", "o", "s", "t", "g", "r", "e", "S", "Q", "L", " ", "1", "6">>

\* what column 1 of the row can hold
Rows == {NullDatum, TextDatum(VersionText)}

\* the bytes debug builds write over freed memory
Clobbered == <<"~", "~">>

NullLiteral == <<"N", "U", "L", "L", NUL>>

ConnectStatuses == {"SPI_OK_CONNECT", "SPI_ERROR_CONNECT"}

ExecuteStatuses == {"SPI_OK_SELECT", "SPI_OK_UTILITY", "SPI_ERROR_UNCONNECTED"}

\* SPI_finish(): pops the session, frees its memory contexts and tuple tables,
\* and clears SPI_processed and SPI_tuptable
SPI_finish(S) == [S EXCEPT !.open = @ - 1, !.processed = 0, !.tuptable = FALSE]

FinishOnErrorSkipped(S) == S

\* line 89: the SPI_finish() of the error path
FinishOnError(S) == SPI_finish(S)

ConnectOkAlways(r) == TRUE

\* line 83: SPI_connect() != SPI_OK_CONNECT is the failure
ConnectOk(r) == r = "SPI_OK_CONNECT"

ExecuteFailedStatusOnly(r, n) == r # "SPI_OK_SELECT"

\* line 87: ret != SPI_OK_SELECT || SPI_processed != 1
ExecuteFailed(r, n) == r # "SPI_OK_SELECT" \/ n # 1

\* a report that returns to the statement after it, as a WARNING does
AfterExecuteErrorReturns == "extract"

\* line 90: ereport(ERROR, ...) does not return; control leaves spi_version
AfterExecuteError == "idle"

\* the memory of an SPI session that holds nothing yet
FreshMem(live) ==
    [live |-> live, tuple_isnull |-> FALSE, tuple_col1 |-> <<>>, null_text |-> <<>>]

\* reading through a pointer: the object while its context lives; after the
\* context is deleted either the old bytes or what overwrote them
Deref(p) == IF mem.live THEN {mem[p]} ELSE {mem[p], Clobbered}

\* the record of a finished invocation: the row the query delivered, the value
\* returned, and the SPI calls made
SpiStmt(row, r, status, tr) ==
    [Stmt("spi_version", row, 0, TRUE, r, 0, status) EXCEPT !.trace = tr]

\* the invocation is over: its locals are gone
SpiLocalsGone ==
    /\ pc' = "idle"
    /\ ret' = "unset"
    /\ isnull' = FALSE
    /\ result' = "unset"
    /\ trace' = <<>>

\* lines 73-84: entry, SPI_connect, and the error when it fails
spi_connect ==
    /\ pc = "idle"
    /\ \E r \in ConnectStatuses :
          LET opened == r = "SPI_OK_CONNECT"
              event  == IF opened THEN "SPI_connect" ELSE "SPI_connect_failed"
          IN  /\ SPI' = IF opened THEN [SPI EXCEPT !.open = @ + 1] ELSE SPI
              /\ mem' = IF opened THEN FreshMem(TRUE) ELSE mem
              /\ IF ConnectOk(r)
                 THEN /\ trace' = <<event>>
                      /\ pc' = "execute"
                      /\ UNCHANGED <<last, ret, isnull, result>>
                 ELSE /\ last' = SpiStmt(NullDatum, NullDatum, "error",
                                         <<event, "ERROR">>)
                      /\ SpiLocalsGone
    /\ UNCHANGED <<greetVars, kept, clockVars, peer, wide>>

\* line 86: ret = SPI_execute(query, true, 1)
spi_execute ==
    /\ pc = "execute"
    /\ \E r \in ExecuteStatuses :
          /\ ret' = r
          /\ IF r = "SPI_OK_SELECT"
             THEN \E n \in 0 .. tcount, row \in Rows :
                     /\ SPI' = [SPI EXCEPT !.processed = n, !.tuptable = TRUE]
                     /\ mem' = IF n = 0 THEN mem
                               ELSE [mem EXCEPT !.tuple_isnull = row.isnull,
                                                !.tuple_col1 = row.val]
             ELSE /\ SPI' = [SPI EXCEPT !.processed = 0, !.tuptable = FALSE]
                  /\ mem' = mem
    /\ trace' = Append(trace, "SPI_execute")
    /\ pc' = "check"
    /\ UNCHANGED <<greetVars, last, kept, clockVars, isnull, result, peer, wide>>

\* lines 87-91: the status and row-count check failed
spi_execute_failed ==
    /\ pc = "check"
    /\ ExecuteFailed(ret, SPI.processed)
    /\ SPI' = FinishOnError(SPI)
    /\ LET finished == SPI'.open < SPI.open
           tr       == IF finished
                       THEN trace \o <<"SPI_finish", "ERROR">>
                       ELSE Append(trace, "ERROR")
       IN  IF AfterExecuteError = "idle"
           THEN /\ last' = SpiStmt(NullDatum, NullDatum, "error", tr)
                /\ mem' = IF finished THEN FreshMem(FALSE) ELSE mem
                /\ SpiLocalsGone
           ELSE /\ pc' = AfterExecuteError
                /\ trace' = tr
                /\ mem' = IF finished THEN [mem EXCEPT !.live = FALSE] ELSE mem
                /\ UNCHANGED <<last, ret, isnull, result>>
    /\ UNCHANGED <<greetVars, kept, clockVars, peer, wide>>

\* lines 93-98: read the row, pick the result pointer
spi_extract ==
    /\ \/ pc = "check" /\ ~ExecuteFailed(ret, SPI.processed)
       \/ pc = "extract"
    /\ isnull' = mem.tuple_isnull
    /\ IF isnull'
       THEN \* cstring_to_text("NULL") allocates in the current context, SPI's procCxt
            /\ mem' = [mem EXCEPT !.null_text = cstring_to_text(NullLiteral)]
            /\ result' = "null_text"
       ELSE \* DatumGetTextPP(d) points into the tuple of SPI_tuptable
            /\ mem' = mem
            /\ result' = "tuple_col1"
    /\ trace' = Append(trace, "SPI_tuptable")
    /\ pc' = "finish"
    /\ UNCHANGED <<greetVars, last, kept, clockVars, SPI, ret, peer, wide>>

\* line 100: SPI_finish() on the success path
spi_finish ==
    /\ pc = "finish"
    /\ SPI' = SPI_finish(SPI)
    /\ mem' = [mem EXCEPT !.live = FALSE]
    /\ trace' = Append(trace, "SPI_finish")
    /\ pc' = "return"
    /\ UNCHANGED <<greetVars, last, kept, clockVars, ret, isnull, result, peer, wide>>

\* line 101: PG_RETURN_TEXT_P(cstring_to_text(text_to_cstring(result)))
spi_return ==
    /\ pc = "return"
    /\ \E bytes \in Deref(result) :
          last' = SpiStmt([isnull |-> mem.tuple_isnull, val |-> mem.tuple_col1],
                          TextDatum(cstring_to_text(text_to_cstring(bytes))), "ok",
                          Append(trace, "return"))
    /\ mem' = FreshMem(FALSE)
    /\ SpiLocalsGone
    /\ UNCHANGED <<greetVars, kept, clockVars, SPI, peer, wide>>

(***************************************************************************)
(* The session after CREATE EXTENSION and the load of the library.         *)
(***************************************************************************)
InitButClock ==
    /\ hello_repeat = hello_repeat_boot
    /\ repeat_source = "default"
    /\ last = NoStmt
    /\ kept = NoStmt
    /\ pc = "idle"
    /\ SPI = [open |-> 0, processed |-> 0, tuptable |-> FALSE]
    /\ ret = "unset"
    /\ isnull = FALSE
    /\ result = "unset"
    /\ mem = FreshMem(FALSE)
    /\ trace = <<>>
    /\ peer = [hello_repeat |-> hello_repeat_boot, repeat_source |-> "default",
               op |-> "none", n |-> 0, status |-> "none"]

\* now_ms not yet applied to the timestamp now
WideAt(now) ==
    [now |-> now, micros |-> ToWide(0), millis |-> ToWide(0), ret |-> ToWide(0),
     done |-> FALSE]

Init ==
    /\ clock = 0
    /\ xactStartTimestamp = 0
    /\ wide = WideAt(ToWide(0))
    /\ InitButClock

\* the same session started at any instant of the clock
InitTime ==
    /\ clock \in ClockValues
    /\ xactStartTimestamp = clock
    /\ wide = WideAt(ToWide(0))
    /\ InitButClock

\* the 64-bit timestamps now_ms is applied to: those around the ends of the
\* range, around zero, around one millisecond, and around powers of two between
WideMarks ==
    {Int64Min, Int64Max, ToWide(0), ToWide(1000), ToWide(-1000)}
        \cup {WidePow2(k) : k \in {31, 32, 53, 62}}
        \cup {WideNeg(WidePow2(k)) : k \in {31, 32, 53, 62}}

Int64Values ==
    {x \in {WideAdd(m, ToWide(d)) : m \in WideMarks, d \in (-WideSpread) .. WideSpread} :
        InInt64(x)}

\* the session with the clock at any 64-bit timestamp
InitWide ==
    /\ clock = 0
    /\ xactStartTimestamp = 0
    /\ wide \in {WideAt(now) : now \in Int64Values}
    /\ InitButClock

\* the whole session, without the host keeping results
Next ==
    \/ SetRepeat
    \/ ResetRepeat
    \/ pg_hello
    \/ now_ms
    \/ Tick
    \/ NewTransaction
    \/ spi_connect
    \/ spi_execute
    \/ spi_execute_failed
    \/ spi_extract
    \/ spi_finish
    \/ spi_return

Spec == Init /\ [][Next]_vars

\* the greeting and its setting, with the host keeping results
NextGreet ==
    \/ SetRepeat
    \/ ResetRepeat
    \/ pg_hello
    \/ NewTransaction
    \/ Keep

SpecGreet == Init /\ [][NextGreet]_vars

\* the clock and the transactions, with the host keeping results
NextClock ==
    \/ now_ms
    \/ Tick
    \/ NewTransaction
    \/ Keep

SpecClock == Init /\ [][NextClock]_vars

\* now_ms over the whole range of the clock, with the host keeping results
NextTime ==
    \/ now_ms
    \/ ClockMoves
    \/ Keep

SpecTime == InitTime /\ [][NextTime]_vars

\* the greeting and its setting, with the host keeping results and answering
\* calls from the results it kept
NextFold ==
    \/ SetRepeat
    \/ ResetRepeat
    \/ pg_hello
    \/ Keep
    \/ pg_hello_folded

SpecFold == Init /\ [][NextFold]_vars

\* the conversion of now_ms over the whole range of timestamps
NextWide ==
    \/ now_ms_convert

SpecWide == InitWide /\ [][NextWide]_vars

\* two sessions, their statements in any order
NextSessions ==
    \/ SetRepeat
    \/ ResetRepeat
    \/ pg_hello
    \/ PeerSetRepeat
    \/ PeerResetRepeat
    \/ PeerPgHello

SpecSessions == Init /\ [][NextSessions]_vars

(***************************************************************************)
(* What the claims are stated with.                                        *)
(***************************************************************************)
\* the phrase "Hello, " + n + "!"
HelloPhrase(n) == <<"H", "e", "l", "l", "o", ",", " ">> \o n \o <<"!">>

\* t is N copies of phrase with one space between neighbours and none around
IsJoinedCopies(t, phrase, N) ==
    LET L == Len(phrase)
    IN  /\ Len(t) = N * L + (N - 1)
        /\ \A k \in 0 .. (N - 1) : SubSeq(t, k * (L + 1) + 1, k * (L + 1) + L) = phrase
        /\ \A k \in 1 .. (N - 1) : t[k * (L + 1)] = " "

Has(tr, e) == \E i \in 1 .. Len(tr) : tr[i] = e

\* the last statement was a call of pg_hello with a non-null name
GreetedName == last.op = "pg_hello" /\ ~last.arg.isnull

(***************************************************************************)
(* C1: for every non-null name n and every value N of pg_hello.repeat in   *)
(* [1,10], pg_hello(n) returns N copies of "Hello, " + n + "!" joined by    *)
(* single spaces: N-1 separators, none leading, none trailing.  (While the *)
(* call is the session's last statement hello_repeat is the N it ran with.)*)
(***************************************************************************)
C1_GreetingIsJoinedCopies ==
    GreetedName =>
        /\ last.status = "ok"
        /\ ~last.ret.isnull
        /\ IsJoinedCopies(last.ret.val, HelloPhrase(last.arg.val), hello_repeat)

C1_Witness ==
    /\ GreetedName
    /\ last.arg.val = <<" ">>
    /\ hello_repeat = 10
    /\ Len(last.ret.val) = 99

(***************************************************************************)
(* C2: after any sequence of SET and RESET attempts, accepted or rejected, *)
(* and any sequence of function calls, hello_repeat is in [1,10].          *)
(***************************************************************************)
C2_RepeatInRange == hello_repeat \in 1 .. 10

C2_Witness ==
    /\ last.op = "SET"
    /\ last.status = "rejected"
    /\ last.n = 11
    /\ hello_repeat = 10

(***************************************************************************)
(* C3: a SET of pg_hello.repeat to a value outside [1,10] is rejected, and *)
(* the body of pg_hello never runs with a repeat count outside [1,10].     *)
(***************************************************************************)
C3_OutOfRangeRejected ==
    /\ (last.op = "SET" /\ last.n \notin 1 .. 10) => last.status = "rejected"
    /\ (last.op = "pg_hello" /\ last.body) => (last.n \in 1 .. 10 /\ last.n = hello_repeat)

C3_Witness ==
    /\ last.op = "SET"
    /\ last.status = "rejected"
    /\ last.n = 0
    /\ repeat_source = "session"
    /\ hello_repeat = 1

(***************************************************************************)
(* C4: pg_hello(NULL) returns NULL for every value of pg_hello.repeat, and *)
(* the body does not run for a NULL argument.                              *)
(***************************************************************************)
C4_NullInNullOut ==
    (last.op = "pg_hello" /\ last.arg.isnull) =>
        /\ last.status = "ok"
        /\ last.ret.isnull
        /\ ~last.body

C4_Witness ==
    /\ last.op = "pg_hello"
    /\ last.arg.isnull
    /\ last.ret.isnull
    /\ hello_repeat = 7

C6_ReturnsColumnValue ==
    (last.op = "spi_version" /\ last.status = "ok") =>
        last.ret = IF last.arg.isnull
                   THEN TextDatum(<<"N", "U", "L", "L">>)
                   ELSE TextDatum(last.arg.val)

(***************************************************************************)
(* C7: now_ms returns the current transaction's timestamp in milliseconds, *)
(* and every call of now_ms within one transaction returns the same value. *)
(***************************************************************************)
C7_NowMsIsTransactionTime ==
    /\ (last.op = "now_ms" /\ last.cur) => last.num = CDiv(xactStartTimestamp, 1000)
    /\ (last.op = "now_ms" /\ last.cur /\ kept.op = "now_ms" /\ kept.cur)
          => last.num = kept.num

(***************************************************************************)
(* C8: any two calls of pg_hello with the same name argument return the    *)
(* same text, whatever SET or RESET of pg_hello.repeat happened between.   *)
(***************************************************************************)
C8_SameNameSameText ==
    (last.op = "pg_hello" /\ kept.op = "pg_hello" /\ last.arg = kept.arg)
        => last.ret = kept.ret

C11_TruncatingDivision ==
    last.op = "now_ms" =>
        LET r == last.micros - 1000 * last.num
        IN  /\ r > -1000
            /\ r < 1000
            /\ (last.micros >= 0 => r >= 0)
            /\ (last.micros <= 0 => r <= 0)

C11_Witness ==
    /\ last.op = "now_ms"
    /\ last.micros = -1001
    /\ last.num = -1

C14_NonDecreasing ==
    (last.op = "now_ms" /\ kept.op = "now_ms" /\ ~kept.back) => last.num >= kept.num

C14_Witness ==
    /\ last.op = "now_ms"
    /\ kept.op = "now_ms"
    /\ ~kept.back
    /\ kept.micros = -1
    /\ last.micros = 1001
    /\ last.num > kept.num

(***************************************************************************)
(* C15: spi_version returns a non-null text that starts with the host's    *)
(* product name, "PostgreSQL" (when it returns, and the host's version()   *)
(* delivered its text).                                                    *)
(***************************************************************************)
ProductName == <<"P", "o", "s", "t", "g", "r", "e", "S", "Q", "L">>

StartsWith(t, p) == Len(t) >= Len(p) /\ SubSeq(t, 1, Len(p)) = p

C15_VersionPrefix ==
    (last.op = "spi_version" /\ last.status = "ok" /\ ~last.arg.isnull) =>
        /\ ~last.ret.isnull
        /\ StartsWith(last.ret.val, ProductName)

(***************************************************************************)
(* C16: for the empty name pg_hello('') returns "Hello, !" repeated N      *)
(* times, joined by single spaces, for every N in [1,10], with no error.   *)
(***************************************************************************)
C16_EmptyName ==
    (last.op = "pg_hello" /\ last.arg = TextDatum(<<>>)) =>
        /\ last.status = "ok"
        /\ last.body
        /\ hello_repeat \in 1 .. 10
        /\ IsJoinedCopies(last.ret.val, <<"H", "e", "l", "l", "o", ",", " ", "!">>,
                          hello_repeat)

C16_Witness ==
    /\ last.op = "pg_hello"
    /\ last.arg = TextDatum(<<>>)
    /\ hello_repeat = 10
    /\ Len(last.ret.val) = 89

(***************************************************************************)
(* C17: pg_hello reads hello_repeat at call time, never a cached copy: a   *)
(* call that follows a successful SET pg_hello.repeat = N returns N        *)
(* phrases, whatever SET, RESET and pg_hello calls came before.  (While    *)
(* the call is the session's last statement hello_repeat is that N.)       *)
(***************************************************************************)
\* how many phrases for this name fit the length of the text t
PhrasesIn(t, name) == (Len(t) + 1) \div (Len(HelloPhrase(name)) + 1)

C17_ReadsFresh ==
    GreetedName =>
        /\ last.n = hello_repeat
        /\ PhrasesIn(last.ret.val, last.arg.val) = hello_repeat
        /\ Len(last.ret.val) + 1 = hello_repeat * (Len(HelloPhrase(last.arg.val)) + 1)

C17_Witness ==
    /\ GreetedName
    /\ kept.op = "pg_hello"
    /\ kept.n = 2
    /\ repeat_source = "session"
    /\ hello_repeat = 5
    /\ PhrasesIn(last.ret.val, last.arg.val) = 5

(***************************************************************************)
(* C18: when SPI_execute returns a status other than SPI_OK_SELECT, or the *)
(* row count is not exactly 1, spi_version fails with an error and returns *)
(* no value, and the error is raised only after SPI_finish released the    *)
(* session: that is the one step the invocation can take from there.       *)
(***************************************************************************)
C18_FailureRaisedAfterFinish ==
    [][(/\ pc = "check"
        /\ (ret # "SPI_OK_SELECT" \/ SPI.processed # 1)
        /\ spiVars' # spiVars) =>
          /\ pc' = "idle"
          /\ last'.op = "spi_version"
          /\ last'.status = "error"
          /\ last'.ret.isnull
          /\ last'.trace = trace \o <<"SPI_finish", "ERROR">>
          /\ SPI'.open = SPI.open - 1
          /\ SPI'.open = 0]_vars

C18_Witness ==
    /\ pc = "check"
    /\ ret = "SPI_OK_SELECT"
    /\ SPI.processed = 0
    /\ SPI.open = 1
    /\ trace = <<"SPI_connect", "SPI_execute">>

(***************************************************************************)
(* C19: when SPI_connect does not return SPI_OK_CONNECT, spi_version fails *)
(* at once with an error: no query is executed, no SPI_finish is issued,   *)
(* and no value is returned.                                               *)
(***************************************************************************)
C19_ConnectFailureIsImmediate ==
    /\ ~Has(trace, "SPI_connect_failed")
    /\ (last.op = "spi_version" /\ Has(last.trace, "SPI_connect_failed")) =>
          /\ last.trace = <<"SPI_connect_failed", "ERROR">>
          /\ last.status = "error"
          /\ last.ret.isnull
    /\ SPI.open >= 0

C19_Witness ==
    /\ pc = "idle"
    /\ last.op = "spi_version"
    /\ last.trace = <<"SPI_connect_failed", "ERROR">>
    /\ last.status = "error"
    /\ SPI.open = 0

(***************************************************************************)
(* C20: no operation retries or recovers from an error, and none ends half *)
(* done: an invocation of spi_version makes at most one SPI_connect and at *)
(* most one SPI_execute, and ends either by returning a value or by        *)
(* raising an error, never both.                                           *)
(***************************************************************************)
Count(tr, e) == Cardinality({i \in 1 .. Len(tr) : tr[i] = e})

AtMostOnceEach(tr) ==
    /\ Count(tr, "SPI_connect") + Count(tr, "SPI_connect_failed") <= 1
    /\ Count(tr, "SPI_execute") <= 1

C20_NoRetryNoPartialSuccess ==
    /\ AtMostOnceEach(trace)
    /\ ~Has(trace, "ERROR")
    /\ ~Has(trace, "return")
    /\ last.op = "spi_version" =>
          /\ AtMostOnceEach(last.trace)
          /\ last.status \in {"ok", "error"}
          /\ last.status = "ok" <=> Has(last.trace, "return")
          /\ last.status = "error" <=> Has(last.trace, "ERROR")
          /\ last.status = "ok" => ~last.ret.isnull
          /\ last.status = "error" => last.ret.isnull
    /\ last.op \in {"pg_hello", "now_ms"} => last.status = "ok"

C20_Witness ==
    /\ pc = "idle"
    /\ last.op = "spi_version"
    /\ last.status = "ok"
    /\ last.trace = <<"SPI_connect", "SPI_execute", "SPI_tuptable", "SPI_finish", "return">>
    /\ last.ret = TextDatum(VersionText)

(***************************************************************************)
(* C21: the extension only reads the configuration cell: no step of a call *)
(* of pg_hello, now_ms or spi_version, successful or failing, changes      *)
(* hello_repeat or where its value comes from; the only steps that change  *)
(* them are the host's SET and RESET.                                      *)
(***************************************************************************)
IsCall(op) == op \in {"pg_hello", "now_ms", "spi_version"}

C21_CallsOnlyRead ==
    [][/\ (last' # last /\ IsCall(last'.op)) => greetVars' = greetVars
       /\ spiVars' # spiVars => greetVars' = greetVars
       /\ greetVars' # greetVars =>
             /\ last'.op \in {"SET", "RESET"}
             /\ last'.status = "ok"
             /\ pc = "idle"
             /\ pc' = "idle"]_vars

C21_Witness ==
    /\ last.op = "spi_version"
    /\ last.status = "error"
    /\ repeat_source = "session"
    /\ hello_repeat = 7

(***************************************************************************)
(* C22: pg_hello.repeat is per session: with two concurrent sessions, no   *)
(* statement of one session, SET and RESET included, changes the cell of   *)
(* the other session or where its value comes from, and every pg_hello     *)
(* reads the cell of its own session, under every interleaving.            *)
(***************************************************************************)
\* a step of the first session, and a step of the second
OwnStep == last' # last

PeerStep == last' = last /\ peer' # peer

C22_SetIsPerSession ==
    [][/\ PeerStep => greetVars' = greetVars
       /\ OwnStep =>
             /\ peer'.hello_repeat = peer.hello_repeat
             /\ peer'.repeat_source = peer.repeat_source
       /\ (OwnStep /\ last'.op = "pg_hello" /\ last'.body) =>
             /\ last'.n = hello_repeat
             /\ PhrasesIn(last'.ret.val, last'.arg.val) = hello_repeat
       /\ (PeerStep /\ peer'.op = "pg_hello") => peer'.n = peer.hello_repeat]_vars

C22_Witness ==
    /\ GreetedName
    /\ last.n = 3
    /\ hello_repeat = 3
    /\ peer.op = "pg_hello"
    /\ peer.n = 5
    /\ peer.hello_repeat = 5

(***************************************************************************)
(* C23: spi_version never reads, after SPI_finish, data that lives in the  *)
(* SPI session: whenever it is about to build the returned text from       *)
(* *result (line 101), the memory that result points into is still valid.  *)
(***************************************************************************)
C23_ResultReadWhileValid == pc = "return" => mem.live

(***************************************************************************)
(* C24: a rejected SET of pg_hello.repeat leaves the cell unchanged, and a *)
(* pg_hello call that comes next in the session runs with the value that   *)
(* was in effect before the rejected attempt.                              *)
(***************************************************************************)
RejectedSet(st) == st.op = "SET" /\ st.status = "rejected"

C24_RejectedSetChangesNothing ==
    [][/\ (last' # last /\ RejectedSet(last')) => greetVars' = greetVars
       /\ (RejectedSet(last) /\ last' # last /\ last'.op = "pg_hello" /\ last'.body) =>
             /\ last'.n = hello_repeat
             /\ PhrasesIn(last'.ret.val, last'.arg.val) = hello_repeat
             /\ Len(last'.ret.val) + 1
                   = hello_repeat * (Len(HelloPhrase(last'.arg.val)) + 1)]_vars

C24_Witness ==
    /\ RejectedSet(last)
    /\ last.n = 0
    /\ hello_repeat = 4
    /\ repeat_source = "session"
    /\ kept.op = "pg_hello"
    /\ kept.n = 4

(***************************************************************************)
(* C25: a result of pg_hello(name) that the host evaluated earlier and     *)
(* kept is never returned to a caller after pg_hello.repeat has changed:   *)
(* every returned greeting has as many repetitions as the value in effect  *)
(* when the statement executes.  (While the call is the session's last     *)
(* statement hello_repeat is that value.)                                  *)
(***************************************************************************)
C25_ReturnedGreetingIsCurrent ==
    GreetedName =>
        Len(last.ret.val) + 1 = hello_repeat * (Len(HelloPhrase(last.arg.val)) + 1)

(***************************************************************************)
(* C26 as stated: now_ms counts milliseconds from 2000-01-01 00:00:00 UTC, *)
(* not from the Unix epoch: at any instant it equals the Unix-epoch        *)
(* millisecond count of that instant minus 946684800000.                   *)
(***************************************************************************)
\* 2000-01-01 is 10957 days of 86400 seconds after 1970-01-01
SecondsBetweenEpochs == (2451545 - 2440588) * 86400

\* 946684800000 milliseconds, and as many thousand microseconds
MillisBetweenEpochs ==
    Wide(FALSE, <<0, 0, SecondsBetweenEpochs \div 1000,
                  (SecondsBetweenEpochs % 1000) * 1000>>)

MicrosBetweenEpochs ==
    Wide(FALSE, <<0, SecondsBetweenEpochs \div WideBase,
                  SecondsBetweenEpochs % WideBase, 0>>)

\* the Unix-epoch millisecond count of the instant that is micros microseconds
\* from 2000-01-01: the whole milliseconds elapsed since 1970-01-01
UnixMillis(micros) ==
    LET unixMicros == WideAdd(ToWide(micros), MicrosBetweenEpochs)
    IN  Wide(FALSE, MagDiv(unixMicros.mag, 1000))

UnixMillisLessOffset(micros) == WideSub(UnixMillis(micros), MillisBetweenEpochs)

C28_TableReadOnlyAfterCheck ==
    /\ pc = "finish" =>
          /\ Has(trace, "SPI_tuptable")
          /\ ret = "SPI_OK_SELECT"
          /\ SPI.processed = 1
          /\ SPI.tuptable
          /\ mem.live
    /\ Has(trace, "SPI_tuptable") =>
          /\ ret = "SPI_OK_SELECT"
          /\ trace[1] = "SPI_connect"
          /\ trace[2] = "SPI_execute"
          /\ Count(trace, "SPI_tuptable") = 1
    /\ (last.op = "spi_version" /\ last.status = "error") =>
          ~Has(last.trace, "SPI_tuptable")

C28_Witness ==
    /\ pc = "finish"
    /\ trace = <<"SPI_connect", "SPI_execute", "SPI_tuptable">>
    /\ SPI.processed = 1
    /\ result = "tuple_col1"

(***************************************************************************)
(* C29: the conversion of microseconds to milliseconds in now_ms cannot    *)
(* overflow: for every 64-bit signed timestamp the quotient by 1000 fits   *)
(* in a 64-bit signed integer, its magnitude is at most that of the input, *)
(* and the casts between long long and int64 preserve the value.  The      *)
(* quotient is the truncated one: what is left over is less than 1000 in   *)
(* magnitude and has the sign of the input; and where the value is small   *)
(* it is the quotient that the session's now_ms computes.                  *)
(***************************************************************************)
IsSmall(x) == x.mag[1] = 0 /\ x.mag[2] = 0 /\ x.mag[3] < 2000

C29_ConversionCannotOverflow ==
    wide.done =>
        /\ InInt64(wide.now)
        /\ wide.micros = wide.now
        /\ InInt64(wide.millis)
        /\ ~MagLess(wide.micros.mag, wide.millis.mag)
        /\ wide.ret = wide.millis
        /\ LET left == WideSub(wide.micros, WideMul(wide.millis, 1000))
           IN  /\ MagLess(left.mag, ToWide(1000).mag)
               /\ left.mag # MagZero => left.neg = wide.micros.neg
        /\ IsSmall(wide.micros) =>
              FromWide(wide.millis) = CDiv(FromWide(wide.micros), 1000)

C29_Witness ==
    /\ wide.done
    /\ wide.now = Int64Min
    /\ wide.now = Wide(TRUE, <<9, 223372, 36854, 775808>>)
    /\ wide.ret = Wide(TRUE, <<0, 9223, 372036, 854775>>)

====
